---- MODULE Spec2Model ----
(***************************************************************************)
(* Order lifecycle of the checkout backend: POST /api/checkout/session,    *)
(* POST /stripe/webhook, GET /api/orders/{id} and the authenticated        *)
(* PUT /api/admin/settings/{key}, over the relational rows Order,          *)
(* AppSettings, AdminUser and AuditLog.                                    *)
(*                                                                         *)
(* The handlers that write are `async def` and contain no await between    *)
(* their database calls, so a worker runs one to completion before it      *)
(* starts the next: Spec has one action per request. A handler is an operator *)
(* from the current rows and the request to the rows it leaves and the     *)
(* response it sends; the action of the endpoint applies it.               *)
(*                                                                         *)
(* Python values: None is the string NoneVal, an absent integer id is 0    *)
(* (both are falsy in the code's `if x:` tests), str(int) and int(str) go  *)
(* through the table Digits, a comma-separated setting is split by the     *)
(* table Split.                                                            *)
(***************************************************************************)
EXTENDS Integers, Sequences, FiniteSets, TLC

VARIABLES
    orders,       \* table Order: row i has primary key i
    settings,     \* table AppSettings: key -> row, for the keys that have a row
    users,        \* table AdminUser: row i has primary key i
    auditLog,     \* table AuditLog in insertion order
    stripeCalls,  \* requests received by the processor's /v1/checkout/sessions
    now,          \* datetime.utcnow(), read once per request that stores a time
    last,         \* the response to the last request: endpoint, status, body
    issued,       \* the bearer tokens POST /api/admin/login has returned
    procs         \* worker process -> the request it is handling and its locals

vars == <<orders, settings, users, auditLog, stripeCalls, now, last, issued, procs>>

----------------------------------------------------------------------------
(* Bounds of the model                                                     *)

\* Requests that commit a row; each reads the clock once, so `now - 1` counts them
MaxRequests == 3

\* Clock readings a bearer token lives for (ACCESS_TOKEN_EXPIRE_MINUTES)
TokenLifetime == 3

\* Request inputs
Amounts == {2000}
Currencies == {"PLN"}
Methods == {"card", "p24"}
IdempotencyKeys == {"<None>"}
PaymentIntents == {"pi_1", "pi_2"}
Signatures == {"<None>", "whsec_your_webhook_secret_here", "whsec_live"}
OrderIds == {1, 2, 7}
AdminWrites ==
    { <<"PAYMENT_METHODS", "card,blik">>, <<"PAYMENT_METHODS", "card, p24">>,
      <<"PAYMENT_METHODS", "">>, <<"STRIPE_WEBHOOK_SECRET", "whsec_live">> }

----------------------------------------------------------------------------
(* Python values                                                           *)

NoneVal == "<None>"
NoId == 0

Digits == <<"1", "2", "3", "4", "5", "6", "7", "8">>

\* str(n) for a primary key n
Str(n) == Digits[n]

IsNumeric(s) == \E n \in DOMAIN Digits : Digits[n] = s

\* int(s), for a string int() accepts
ParseInt(s) == CHOOSE n \in DOMAIN Digits : Digits[n] = s

\* bool(s) of an Optional[str]
Truthy(s) == s # NoneVal /\ s # ""

\* a or b
Or(a, b) == IF Truthy(a) THEN a ELSE b

\* s.split(",") for the values a PAYMENT_METHODS setting takes in the model
Split(s) ==
    CASE s = "card,blik,p24,bancontact,ideal,sofort" ->
             <<"card", "blik", "p24", "bancontact", "ideal", "sofort">>
      [] s = "pln,usd,eur,gbp" -> <<"pln", "usd", "eur", "gbp">>
      [] s = "card,blik" -> <<"card", "blik">>
      [] s = "card, p24" -> <<"card", " p24">>
      [] OTHER -> <<s>>

\* s.strip()
Strip(s) == IF s = " p24" THEN "p24" ELSE s

Range(f) == {f[i] : i \in DOMAIN f}

----------------------------------------------------------------------------
(* app/auth.py                                                             *)

\* pwd_context.hash(password): a bcrypt hash, which only that password verifies
get_password_hash(password) == <<"$2b$", password>>

\* A check that accepts any password
verify_password_Any(plain_password, hashed_password) == TRUE

\* pwd_context.verify(plain_password, hashed_password)
verify_password(plain_password, hashed_password) ==
    hashed_password = get_password_hash(plain_password)

\* SECRET_KEY, and a key that is not this application's
SECRET_KEY == "JWT_SECRET_KEY"
OtherKey == "not the JWT_SECRET_KEY"

\* create_access_token({"sub": username}, timedelta(minutes=30)): the claims
\* and the key that signed them
create_access_token(username) ==
    [sub |-> username, exp |-> now + TokenLifetime, key |-> SECRET_KEY]

\* A decoder that does not look at exp
verify_token_NoExpiry(token) ==
    IF token.key = SECRET_KEY THEN token.sub ELSE NoneVal

\* verify_token(token): jwt.decode checks the signature and exp; the subject,
\* or None
verify_token(token) ==
    IF token.key = SECRET_KEY /\ token.exp > now THEN token.sub ELSE NoneVal

\* A dependency that, like login, refuses an account that is not active
get_current_user_ActiveOnly(token) ==
    LET username == verify_token(token)
        found == {i \in DOMAIN users : users[i].username = username /\ users[i].is_active}
    IN  IF username = NoneVal
        THEN [id |-> NoId, detail |-> "Invalid authentication credentials"]
        ELSE IF found = {}
        THEN [id |-> NoId, detail |-> "User not found"]
        ELSE [id |-> CHOOSE i \in found : \A j \in found : i <= j, detail |-> ""]

\* get_current_user: the account's id, or the 401 it raises
get_current_user(token) ==
    LET username == verify_token(token)
        found == {i \in DOMAIN users : users[i].username = username}
    IN  IF username = NoneVal
        THEN [id |-> NoId, detail |-> "Invalid authentication credentials"]
        ELSE IF found = {}
        THEN [id |-> NoId, detail |-> "User not found"]
        ELSE [id |-> CHOOSE i \in found : \A j \in found : i <= j, detail |-> ""]

\* get_setting(key): the row's value, or None
get_setting(key) ==
    IF key \in DOMAIN settings THEN settings[key].value ELSE NoneVal

UserById(user_id) ==
    IF user_id \in DOMAIN users THEN users[user_id].username ELSE "unknown"

\* The AuditLog row log_audit_event builds (ip_address and user_agent are
\* request metadata and are left out of the model).
AuditRow(user_id, username, action, resource_type, resource_id, old_value, new_value, details) ==
    LET name == IF ~Truthy(username) /\ user_id # NoId
                THEN UserById(user_id) ELSE username
    IN  [user_id       |-> user_id,
         username      |-> Or(name, "system"),
         action        |-> action,
         resource_type |-> resource_type,
         resource_id   |-> resource_id,
         old_value     |-> old_value,
         new_value     |-> new_value,
         details       |-> details,
         created_at    |-> now]

\* A log that keeps one entry per action and resource
log_audit_event_Upsert(log, user_id, username, action, resource_type, resource_id, old_value, new_value, details) ==
    LET other(row) == row.action # action \/ row.resource_id # resource_id
    IN  Append(SelectSeq(log, other),
               AuditRow(user_id, username, action, resource_type,
                        resource_id, old_value, new_value, details))

\* log_audit_event(...) on the log `log`
log_audit_event(log, user_id, username, action, resource_type, resource_id, old_value, new_value, details) ==
    Append(log, AuditRow(user_id, username, action, resource_type,
                         resource_id, old_value, new_value, details))

\* set_setting(key, value, description, user_id): the table afterwards
SetSettingRow(key, value, description, user_id) ==
    [k \in DOMAIN settings \cup {key} |->
        IF k = key
        THEN [value |-> value, description |-> description,
              updated_at |-> now, updated_by |-> user_id]
        ELSE settings[k]]

\* A set_setting that tags every entry setting_update
SetSettingAudit_AlwaysUpdate(log, key, value, user_id) ==
    IF user_id # NoId
    THEN log_audit_event(log, user_id, NoneVal, "setting_update",
             "setting", key, get_setting(key), value, NoneVal)
    ELSE log

\* set_setting's audit entry, written when user_id is given
SetSettingAudit(log, key, value, user_id) ==
    IF user_id # NoId
    THEN log_audit_event(log, user_id, NoneVal,
             IF key \in DOMAIN settings THEN "setting_update" ELSE "setting_create",
             "setting", key, get_setting(key), value, NoneVal)
    ELSE log

----------------------------------------------------------------------------
(* app/config.py                                                           *)

get_stripe_secret_key == get_setting("STRIPE_SECRET_KEY")

get_stripe_webhook_secret == get_setting("STRIPE_WEBHOOK_SECRET")

----------------------------------------------------------------------------
(* app/models.py and app/main.py                                           *)

\* Order(amount=..., currency=..., status="pending") as committed
NewOrder(amount, currency) ==
    [amount            |-> amount,
     currency          |-> currency,
     status            |-> "pending",
     stripe_session_id |-> NoneVal,
     payment_intent_id |-> NoneVal,
     created_at        |-> now,
     updated_at        |-> now]

DefaultSettings ==
    << <<"STRIPE_SECRET_KEY", "sk_test_your_stripe_secret_key_here", "Stripe Secret Key">>,
       <<"STRIPE_WEBHOOK_SECRET", "whsec_your_webhook_secret_here", "Stripe Webhook Secret">>,
       <<"STRIPE_PUBLISHABLE_KEY", "pk_test_your_publishable_key_here", "Stripe Publishable Key">>,
       <<"PAYMENT_METHODS", "card,blik,p24,bancontact,ideal,sofort", "Available Payment Methods">>,
       <<"SUPPORTED_CURRENCIES", "pln,usd,eur,gbp", "Supported Currencies">>,
       <<"DEFAULT_CURRENCY", "pln", "Default Currency">> >>

\* The rows a handler starts from
Db ==
    [orders |-> orders, settings |-> settings, users |-> users,
     auditLog |-> auditLog, stripeCalls |-> stripeCalls, now |-> now]

\* What a handler leaves: the rows, and the response
Result(db, op, status, body) ==
    [db |-> db, resp |-> [op |-> op, status |-> status, body |-> body]]

\* The token a response hands out
TokensIn(resp) ==
    IF resp.op = "login" /\ resp.status = 200 THEN {resp.body.access_token} ELSE {}

\* A handler that commits a row reads the clock
Commits(r) == r.db.now # now

Apply(r) ==
    /\ Commits(r) => now <= MaxRequests
    /\ orders' = r.db.orders
    /\ settings' = r.db.settings
    /\ auditLog' = r.db.auditLog
    /\ stripeCalls' = r.db.stripeCalls
    /\ now' = r.db.now
    /\ last' = r.resp
    /\ users' = r.db.users
    /\ issued' = issued \cup TokensIn(r.resp)
    /\ UNCHANGED procs

\* on_startup() on an empty database: the admin account and the six settings
InitRows ==
    /\ orders = <<>>
    /\ users = << [username |-> "admin", password_hash |-> get_password_hash("admin123"),
                    is_active |-> TRUE] >>
    /\ settings =
         [k \in {d[1] : d \in Range(DefaultSettings)} |->
            LET d == CHOOSE d \in Range(DefaultSettings) : d[1] = k
            IN  [value |-> d[2], description |-> d[3],
                 updated_at |-> 0, updated_by |-> 1]]
    /\ auditLog = <<>>
    /\ stripeCalls = <<>>
    /\ now = 1
    /\ last = [op |-> "startup", status |-> 0, body |-> [detail |-> ""]]
    /\ issued = {}

\* One worker, which runs each handler to its end: no request is in progress
Init == InitRows /\ procs = <<>>

----------------------------------------------------------------------------
(* app/routes_webhooks.py                                                  *)

Completed == "checkout.session.completed"
Failed == "payment_intent.payment_failed"
Expired == "checkout.session.expired"

\* A check that only asks for a signature header
VerifySignature_AnySigned(sig, secret) == sig # NoneVal

\* stripe.Webhook.construct_event accepts the payload when the signature
\* header was computed with the secret it is given; a signature is modelled
\* as the secret that signed it, a missing header as None.
VerifySignature(sig, secret) == sig # NoneVal /\ secret # NoneVal /\ sig = secret

\* A message that names the secret the signature was expected to be made with
SignatureError_Expected(sig, secret) == secret

\* f"Webhook signature verification failed: {e}": e is what construct_event
\* raised. The header is parsed before the secret is used: a missing header
\* fails there, a secret of None fails in secret.encode, and a signature made
\* with another secret fails the comparison.
SignatureError(sig, secret) ==
    CASE sig = NoneVal ->
           "Webhook signature verification failed: Unable to extract timestamp and signatures from header"
      [] sig # NoneVal /\ secret = NoneVal ->
           "Webhook signature verification failed: 'NoneType' object has no attribute 'encode'"
      [] OTHER ->
           "Webhook signature verification failed: No signatures found matching the expected signature for payload"

\* order_id as each branch reads it from event["data"]["object"]
EventOrderId(event) ==
    IF event.type = Failed
    THEN Or(event.metadata_order_id, event.client_reference_id)
    ELSE event.client_reference_id

\* An expiry that reopens the order instead of closing it
EventStatus_Reopen(type) ==
    CASE type = Completed -> "paid"
      [] type = Failed -> "failed"
      [] type = Expired -> "pending"

\* order.status = ... of the branch for the event type
EventStatus(type) ==
    CASE type = Completed -> "paid"
      [] type = Failed -> "failed"
      [] type = Expired -> "expired"

\* action= of the branch's log_audit_event
EventAction(type) ==
    CASE type = Completed -> "payment_completed"
      [] type = Failed -> "payment_failed"
      [] type = Expired -> "payment_session_expired"

\* details= of the branch's log_audit_event: the payment intent it names
EventDetails(event) ==
    IF event.type = Completed THEN event.payment_intent ELSE NoneVal

\* A branch that leaves updated_at as it was
WebhookOrder_StaleTime(order, event) ==
    [order EXCEPT !.status = EventStatus(event.type),
                  !.payment_intent_id =
                      IF event.type = Completed THEN event.payment_intent ELSE @]

\* A completed branch that does not store the payment intent
WebhookOrder_NoIntent(order, event) ==
    [order EXCEPT !.status = EventStatus(event.type), !.updated_at = now]

\* The Order row a branch commits
WebhookOrder(order, event) ==
    [order EXCEPT !.status = EventStatus(event.type),
                  !.payment_intent_id =
                      IF event.type = Completed THEN event.payment_intent ELSE @,
                  !.updated_at = now]

\* The events Stripe delivers: checkout sessions carry client_reference_id and
\* payment_intent, payment intents carry metadata.
Refs == {NoneVal, "abc", Str(1), Str(2), Str(7)}

WebhookEvents ==
    [type : {Completed}, client_reference_id : Refs,
     metadata_order_id : {NoneVal}, payment_intent : PaymentIntents]
    \cup
    [type : {Failed}, client_reference_id : {NoneVal},
     metadata_order_id : Refs, payment_intent : {NoneVal}]
    \cup
    [type : {Failed}, client_reference_id : {Str(1)},
     metadata_order_id : {NoneVal}, payment_intent : {NoneVal}]
    \cup
    [type : {Expired}, client_reference_id : Refs,
     metadata_order_id : {NoneVal}, payment_intent : {NoneVal}]
    \cup
    [type : {"payment_intent.succeeded"}, client_reference_id : {NoneVal},
     metadata_order_id : {Str(1)}, payment_intent : {NoneVal}]

\* POST /stripe/webhook
stripe_webhook(sig, event) ==
    LET order_id == EventOrderId(event)
        received == Result(Db, "webhook", 200, [received |-> TRUE])
    IN
    IF ~VerifySignature(sig, get_stripe_webhook_secret)
    THEN Result(Db, "webhook", 400,
                [detail |-> SignatureError(sig, get_stripe_webhook_secret)])
    ELSE IF event.type \in {Completed, Failed, Expired} /\ Truthy(order_id)
    THEN IF ~IsNumeric(order_id)
         THEN \* int(order_id) raises ValueError
              Result(Db, "webhook", 500, [detail |-> "Internal Server Error"])
         ELSE IF ParseInt(order_id) \in DOMAIN orders
         THEN Result(
                [Db EXCEPT
                   !.orders = [orders EXCEPT
                                 ![ParseInt(order_id)] = WebhookOrder(@, event)],
                   !.auditLog = log_audit_event(auditLog, NoId, "stripe_webhook",
                                    EventAction(event.type), "order", order_id,
                                    orders[ParseInt(order_id)].status,
                                    EventStatus(event.type), EventDetails(event)),
                   !.now = now + 1],
                "webhook", 200, [received |-> TRUE])
         ELSE received
    ELSE received

Webhook == \E sig \in Signatures, event \in WebhookEvents : Apply(stripe_webhook(sig, event))

----------------------------------------------------------------------------
(* app/routes_checkout.py                                                  *)

\* body.currency.lower()
Lower(s) ==
    CASE s = "PLN" -> "pln"
      [] s = "EUR" -> "eur"
      [] s = "CHF" -> "chf"
      [] OTHER -> s

\* A list read once, when the application started, and kept
AvailableMethods_AtStartup ==
    <<"card", "blik", "p24", "bancontact", "ideal", "sofort">>

\* available_methods: the PAYMENT_METHODS setting, or the default list when
\* the setting is missing or empty, split at commas and stripped
AvailableMethods ==
    LET payment_methods_str ==
            Or(get_setting("PAYMENT_METHODS"), "card,blik,p24,bancontact,ideal,sofort")
        parts == Split(payment_methods_str)
    IN  [i \in DOMAIN parts |-> Strip(parts[i])]

\* A check against the built-in list instead of the setting
MethodRejected_DefaultList(method) ==
    method \notin {"card", "blik", "p24", "bancontact", "ideal", "sofort"}

\* if body.payment_method not in available_methods
MethodRejected(method) == method \notin Range(AvailableMethods)

\* f"checkout-{order.id}-{uuid.uuid4()}"
GeneratedKeys == <<"checkout-1-uuid", "checkout-2-uuid", "checkout-3-uuid",
                   "checkout-4-uuid", "checkout-5-uuid", "checkout-6-uuid">>

\* The processor's session ids and the hosted page of each
SessionIds == <<"cs_1", "cs_2", "cs_3", "cs_4", "cs_5", "cs_6">>

SessionUrl(sid) == <<"https://checkout.stripe.com/c/pay", sid>>

\* A request that is always sent under the key the handler generates
StripeRequest_OwnKey(stripe_key, idem_key, method, currency, amount, order_id) ==
    [authorization       |-> stripe_key,
     idempotency_key     |-> GeneratedKeys[order_id],
     payment_method_type |-> method,
     currency            |-> currency,
     unit_amount         |-> amount,
     client_reference_id |-> Str(order_id)]

\* requests.post(".../v1/checkout/sessions", ...) as the processor sees it
StripeRequest(stripe_key, idem_key, method, currency, amount, order_id) ==
    [authorization       |-> stripe_key,
     idempotency_key     |-> idem_key,
     payment_method_type |-> method,
     currency            |-> currency,
     unit_amount         |-> amount,
     client_reference_id |-> Str(order_id)]

\* A handler that returns the URL without storing the session id
StoreSession_Skip(rows, order_id, sid) == rows

\* A store that also stamps the row's updated_at
StoreSession_Touch(rows, order_id, sid) ==
    IF order_id \in DOMAIN rows
    THEN [rows EXCEPT ![order_id].stripe_session_id = sid, ![order_id].updated_at = now]
    ELSE rows

\* obj.stripe_session_id = session_data["id"] on the row read back by id
StoreSession(rows, order_id, sid) ==
    IF order_id \in DOMAIN rows
    THEN [rows EXCEPT ![order_id].stripe_session_id = sid]
    ELSE rows

\* The audit entry written before raise HTTPException(400, "Invalid payment
\* method ...")
InvalidMethodAudit(log, order_id) ==
    log_audit_event(log, NoId, "customer", "payment_attempt_failed", "order",
                    Str(order_id), NoneVal, NoneVal, "Invalid payment method")

\* An except branch that does not write the audit entry
ExceptAudit_Skip(log, order_id) == log

\* except Exception as e: the audit entry written when the order exists. The
\* handler's own HTTPException(400, ...) are caught here too.
ExceptAudit(log, order_id) ==
    log_audit_event(log, NoId, "customer", "payment_attempt_failed", "order",
                    Str(order_id), NoneVal, NoneVal,
                    "System error during payment creation")

\* POST /api/checkout/session. `outcome` is what the environment does to the
\* request: "db_error" (the first query raises, before the order exists),
\* "ok" (the processor answers 200), "rejected" (it answers another status),
\* "raise" (requests.post raises).
create_checkout_session(amount, currency, method, idem, outcome) ==
    LET order_id == Len(orders) + 1
        created == Append(orders, NewOrder(amount, Lower(currency)))
        idem_key == Or(idem, GeneratedKeys[order_id])
        sid == SessionIds[Len(stripeCalls) + 1]
        call == StripeRequest(get_stripe_secret_key, idem_key, method,
                              Lower(currency), amount, order_id)
    IN
    IF outcome = "db_error"
    THEN Result(Db, "checkout", 400, [detail |-> "database error"])
    ELSE IF MethodRejected(method)
    THEN Result([Db EXCEPT
                   !.orders = created,
                   !.auditLog = ExceptAudit(InvalidMethodAudit(auditLog, order_id),
                                            order_id),
                   !.now = now + 1],
                "checkout", 400, [detail |-> "Invalid payment method"])
    ELSE IF outcome = "ok"
    THEN Result([Db EXCEPT
                   !.orders = StoreSession(created, order_id, sid),
                   !.stripeCalls = Append(stripeCalls, call),
                   !.auditLog = log_audit_event(auditLog, NoId, "customer",
                                    "payment_attempt_created", "order", Str(order_id),
                                    NoneVal, NoneVal, "Payment session created"),
                   !.now = now + 1],
                "checkout", 200, [url |-> SessionUrl(sid), order_id |-> order_id])
    ELSE Result([Db EXCEPT
                   !.orders = created,
                   !.stripeCalls = Append(stripeCalls, call),
                   !.auditLog = ExceptAudit(auditLog, order_id),
                   !.now = now + 1],
                "checkout", 400,
                [detail |-> IF outcome = "rejected" THEN "Stripe API error"
                                                    ELSE "connection error"])

Outcomes == {"db_error", "ok", "rejected", "raise"}

Checkout ==
    \E amount \in Amounts, currency \in Currencies, method \in Methods,
       idem \in IdempotencyKeys, outcome \in Outcomes :
        Apply(create_checkout_session(amount, currency, method, idem, outcome))

\* GET /api/checkout/payment-methods: the configured codes that have a
\* display name
get_payment_methods ==
    LET method_names == {"card", "blik", "p24", "bancontact", "ideal", "sofort",
                         "giropay", "eps", "sepa_debit", "sepa_credit_transfer"}
        known(code) == code \in method_names
    IN  Result(Db, "payment_methods", 200,
               [payment_methods |-> SelectSeq(AvailableMethods, known)])

GetPaymentMethods == Apply(get_payment_methods)

\* currencies: the SUPPORTED_CURRENCIES setting, or the default list, split at
\* commas and stripped
SupportedCurrencies ==
    LET currencies_str == Or(get_setting("SUPPORTED_CURRENCIES"), "pln,usd,eur,gbp")
        parts == Split(currencies_str)
    IN  [i \in DOMAIN parts |-> Strip(parts[i])]

\* GET /api/checkout/currencies
get_currencies ==
    LET currency_info == {"pln", "usd", "eur", "gbp", "cad", "aud", "chf",
                          "sek", "nok", "dkk"}
        default_currency == Or(get_setting("DEFAULT_CURRENCY"), "pln")
        known(code) == code \in currency_info
        listed == SelectSeq(SupportedCurrencies, known)
    IN  Result(Db, "currencies", 200,
               [currencies |-> [i \in DOMAIN listed |->
                                   [code |-> listed[i],
                                    is_default |-> listed[i] = default_currency]],
                default |-> default_currency])

GetCurrencies == Apply(get_currencies)

----------------------------------------------------------------------------
(* app/routes_orders.py                                                    *)

\* GET /api/orders/{order_id}
get_order(order_id) ==
    IF order_id \in DOMAIN orders
    THEN Result(Db, "get_order", 200, orders[order_id])
    ELSE Result(Db, "get_order", 404, [detail |-> "Order not found"])

GetOrder == \E order_id \in OrderIds : Apply(get_order(order_id))

----------------------------------------------------------------------------
(* app/routes_admin.py                                                     *)

\* A route that leaves the audit entry to set_setting
update_setting_NoRouteAudit(key, value, current_user) ==
    Result([Db EXCEPT
              !.settings = SetSettingRow(key, value, NoneVal, current_user),
              !.auditLog = SetSettingAudit(auditLog, key, value, current_user),
              !.now = now + 1],
           "update_setting", 200, [key |-> key, value |-> value])

\* PUT /api/admin/settings/{key} by the account current_user (description is
\* not sent, so it is None)
update_setting(key, value, current_user) ==
    Result([Db EXCEPT
              !.settings = SetSettingRow(key, value, NoneVal, current_user),
              !.auditLog = log_audit_event(
                               SetSettingAudit(auditLog, key, value, current_user),
                               current_user, users[current_user].username,
                               "setting_update", "setting", key, NoneVal, value,
                               "Updated via admin panel"),
              !.now = now + 1],
           "update_setting", 200, [key |-> key, value |-> value])

UpdateSetting == \E w \in AdminWrites : Apply(update_setting(w[1], w[2], 1))

\* default_settings of POST /api/admin/init and of init_db.py
InitSettings ==
    << <<"STRIPE_SECRET_KEY", "sk_test_your_stripe_secret_key_here", "Stripe Secret Key">>,
       <<"STRIPE_WEBHOOK_SECRET", "whsec_your_webhook_secret_here", "Stripe Webhook Secret">>,
       <<"STRIPE_PUBLISHABLE_KEY", "pk_test_your_publishable_key_here", "Stripe Publishable Key">>,
       <<"PAYMENT_METHODS", "card,blik,p24,bancontact,ideal,sofort", "Available Payment Methods (comma-separated list: ...)">>,
       <<"SUPPORTED_CURRENCIES", "pln,usd,eur,gbp", "Supported Currencies (comma-separated list: ...)">>,
       <<"DEFAULT_CURRENCY", "pln", "Default Currency (3-letter code: ...)">> >>

\* if not admin_user: db.add(AdminUser(username="admin", ...))
WithAdmin(rows) ==
    IF \E i \in DOMAIN rows : rows[i].username = "admin"
    THEN rows
    ELSE Append(rows, [username |-> "admin",
                       password_hash |-> get_password_hash("admin123"),
                       is_active |-> TRUE])

\* AppSettings(key=..., value=..., description=..., updated_by=...) as inserted
DefaultRow(d, user_id) ==
    [value |-> d[2], description |-> d[3], updated_at |-> now, updated_by |-> user_id]

\* A seeding that puts every default key back to its default
WithMissingSettings_Reset(defaults, user_id) ==
    [k \in DOMAIN settings \cup {d[1] : d \in Range(defaults)} |->
        IF k \in {d[1] : d \in Range(defaults)}
        THEN DefaultRow(CHOOSE d \in Range(defaults) : d[1] = k, user_id)
        ELSE settings[k]]

\* for key, value, description in default_settings: insert the row if the key
\* has none
WithMissingSettings(defaults, user_id) ==
    [k \in DOMAIN settings \cup {d[1] : d \in Range(defaults)} |->
        IF k \in DOMAIN settings
        THEN settings[k]
        ELSE DefaultRow(CHOOSE d \in Range(defaults) : d[1] = k, user_id)]

\* POST /api/admin/init (no authentication)
initialize_admin ==
    Result([Db EXCEPT
              !.users = WithAdmin(users),
              !.settings = WithMissingSettings(InitSettings, NoId),
              !.auditLog = log_audit_event(auditLog, NoId, "system", "admin_init",
                               "system", "admin_panel", NoneVal, NoneVal,
                               "Admin user and settings initialized"),
              !.now = now + 1],
           "init", 200,
           [message |-> "Admin user and settings initialized successfully"])

InitializeAdmin == Apply(initialize_admin)

----------------------------------------------------------------------------
(* app/main.py                                                             *)

\* on_startup(): the admin account if there is none, the six settings if the
\* table is empty
on_startup ==
    LET accounts == WithAdmin(users)
        admin_user == CHOOSE i \in DOMAIN accounts : accounts[i].username = "admin"
        created == accounts # users \/ DOMAIN settings = {}
    IN  Result([Db EXCEPT
                  !.users = accounts,
                  !.settings = IF DOMAIN settings = {}
                               THEN WithMissingSettings(DefaultSettings, admin_user)
                               ELSE settings,
                  !.now = IF created THEN now + 1 ELSE now],
               "startup", 0, [detail |-> ""])

OnStartup == Apply(on_startup)

----------------------------------------------------------------------------
(* init_db.py, update_stripe_key.py, update_local_keys.py                  *)

\* initialize_database()
initialize_database ==
    Result([Db EXCEPT
              !.users = WithAdmin(users),
              !.settings = WithMissingSettings(InitSettings, NoId),
              !.auditLog = log_audit_event(auditLog, NoId, "system", "admin_init",
                               "system", "deployment_init", NoneVal, NoneVal,
                               "Database initialized via deployment script"),
              !.now = now + 1],
           "init_db", 0, [detail |-> ""])

InitializeDatabase == Apply(initialize_database)

\* new_key.startswith("sk_test_") or new_key.startswith("sk_live_")
IsSecretKeyFormat(key) == key \in {"sk_test_your_stripe_secret_key_here", "sk_test_51Rur96"}

\* setting.value = value on the row of `key`; the other columns stay
WithValue(rows, key, value) ==
    IF key \in DOMAIN rows THEN [rows EXCEPT ![key].value = value] ELSE rows

\* update_stripe_key(new_key)
update_stripe_key(new_key) ==
    IF IsSecretKeyFormat(new_key) /\ "STRIPE_SECRET_KEY" \in DOMAIN settings
    THEN Result([Db EXCEPT !.settings = WithValue(settings, "STRIPE_SECRET_KEY", new_key)],
                "update_stripe_key", 0, [updated |-> TRUE])
    ELSE Result(Db, "update_stripe_key", 0, [updated |-> FALSE])

ScriptSecretKeys == {"sk_test_51Rur96", "rk_test_51Rur96"}

UpdateStripeKey == \E new_key \in ScriptSecretKeys : Apply(update_stripe_key(new_key))

\* update_local_keys() with the three values typed in
update_local_keys(secret_key, publishable_key, webhook_secret) ==
    IF ~(Truthy(secret_key) /\ Truthy(publishable_key) /\ Truthy(webhook_secret))
    THEN Result(Db, "update_local_keys", 0, [updated |-> FALSE])
    ELSE Result([Db EXCEPT
                   !.settings =
                       WithValue(WithValue(WithValue(settings,
                           "STRIPE_SECRET_KEY", secret_key),
                           "STRIPE_PUBLISHABLE_KEY", publishable_key),
                           "STRIPE_WEBHOOK_SECRET", webhook_secret)],
                "update_local_keys", 0, [updated |-> TRUE])

\* The operator retypes the keys in use and a webhook secret
ScriptWebhookSecrets == {"", "whsec_your_webhook_secret_here", "whsec_live"}

UpdateLocalKeys ==
    \E webhook_secret \in ScriptWebhookSecrets :
        Apply(update_local_keys(get_setting("STRIPE_SECRET_KEY"),
                                get_setting("STRIPE_PUBLISHABLE_KEY"), webhook_secret))

----------------------------------------------------------------------------
(* app/routes_admin.py behind get_current_user                             *)

\* raise HTTPException(status_code=401, ...) of the dependency
Unauthorized(op, detail) == Result(Db, op, 401, [detail |-> detail])

\* POST /api/admin/login
login(username, password) ==
    LET found == {i \in DOMAIN users : users[i].username = username}
        user == CHOOSE i \in found : \A j \in found : i <= j
        failed(details) ==
            Result([Db EXCEPT
                      !.auditLog = log_audit_event(auditLog, NoId, username,
                                       "login_failed", "user", username,
                                       NoneVal, NoneVal, details),
                      !.now = now + 1],
                   "login", 401, [detail |-> details])
    IN  IF found = {} \/ ~verify_password(password, users[user].password_hash)
        THEN failed("Invalid credentials")
        ELSE IF ~users[user].is_active
        THEN failed("User account is disabled")
        ELSE Result([Db EXCEPT
                       !.auditLog = log_audit_event(auditLog, user, users[user].username,
                                        "login_success", "user", users[user].username,
                                        NoneVal, NoneVal, NoneVal),
                       !.now = now + 1],
                    "login", 200,
                    [access_token |-> create_access_token(users[user].username),
                     token_type |-> "bearer"])

\* GET /api/admin/settings
get_settings(token) ==
    LET current_user == get_current_user(token)
    IN  IF current_user.id = NoId
        THEN Unauthorized("get_settings", current_user.detail)
        ELSE Result(Db, "get_settings", 200, [settings |-> settings])

\* PUT /api/admin/settings/{key} as the request arrives, with its token
update_setting_request(token, key, value) ==
    LET current_user == get_current_user(token)
    IN  IF current_user.id = NoId
        THEN Unauthorized("update_setting", current_user.detail)
        ELSE update_setting(key, value, current_user.id)

\* GET /api/admin/debug/stripe-keys
debug_stripe_keys(token) ==
    LET current_user == get_current_user(token)
        keys == [secret |-> get_setting("STRIPE_SECRET_KEY"),
                 publishable |-> get_setting("STRIPE_PUBLISHABLE_KEY"),
                 webhook |-> get_setting("STRIPE_WEBHOOK_SECRET")]
    IN  IF current_user.id = NoId
        THEN Unauthorized("debug_stripe_keys", current_user.detail)
        ELSE Result(Db, "debug_stripe_keys", 200,
                    [database |-> keys, config_functions |-> keys])

\* A query that drops the username filter
Matches_AnyUser(row, action, username, resource_type) ==
    /\ Truthy(action) => row.action = action
    /\ Truthy(resource_type) => row.resource_type = resource_type

\* if action: query.where(...), if username: ..., if resource_type: ...
Matches(row, action, username, resource_type) ==
    /\ Truthy(action) => row.action = action
    /\ Truthy(username) => row.username = username
    /\ Truthy(resource_type) => row.resource_type = resource_type

\* ORDER BY created_at DESC puts row i before row j; rows of one created_at
\* come in the order the database picks, `ties`: by id upwards or downwards
Before(i, j, ties) ==
    \/ auditLog[i].created_at > auditLog[j].created_at
    \/ /\ auditLog[i].created_at = auditLog[j].created_at
       /\ IF ties = "asc" THEN i < j ELSE i > j

\* query.order_by(AuditLog.created_at.desc()) over the rows with ids S
RECURSIVE OrderBy(_, _)
OrderBy(S, ties) ==
    IF S = {}
    THEN <<>>
    ELSE LET first == CHOOSE i \in S : \A j \in S \ {i} : Before(i, j, ties)
         IN  <<first>> \o OrderBy(S \ {first}, ties)

\* query.offset(offset).limit(limit)
OffsetLimit(ids, offset, limit) ==
    SubSeq(ids, offset + 1, IF offset + limit < Len(ids) THEN offset + limit ELSE Len(ids))

\* AuditLogResponse(id=log.id, ...)
AuditLogResponse(id) == [id |-> id, entry |-> auditLog[id]]

\* GET /api/admin/audit-logs
get_audit_logs(token, limit, offset, action, username, resource_type, ties) ==
    LET current_user == get_current_user(token)
        matching == {i \in DOMAIN auditLog :
                        Matches(auditLog[i], action, username, resource_type)}
        ids == OffsetLimit(OrderBy(matching, ties), offset, limit)
    IN  IF current_user.id = NoId
        THEN Unauthorized("audit_logs", current_user.detail)
        ELSE Result(Db, "audit_logs", 200,
                    [logs |-> [k \in DOMAIN ids |-> AuditLogResponse(ids[k])]])

----------------------------------------------------------------------------

Next == Checkout \/ Webhook \/ GetOrder \/ UpdateSetting

Spec == Init /\ [][Next]_vars

----------------------------------------------------------------------------
(* Checkout requests that carry an Idempotency-Key header, between the     *)
(* administrator's writes and the listing of the payment methods           *)

\* request.headers.get("Idempotency-Key"): absent, or the key a client sends
\* again with its retry
ClientKeys == {NoneVal, "order-42"}

CheckoutWithKey ==
    \E amount \in Amounts, currency \in Currencies, method \in Methods,
       idem \in ClientKeys, outcome \in Outcomes :
        Apply(create_checkout_session(amount, currency, method, idem, outcome))

NextRetry == CheckoutWithKey \/ UpdateSetting \/ GetPaymentMethods

SpecRetry == Init /\ [][NextRetry]_vars

----------------------------------------------------------------------------
(* The endpoints that ask for no token, and the key scripts run beside them *)

RequestCurrencies == {"PLN", "CHF"}

CheckoutCurrency ==
    \E amount \in Amounts, currency \in RequestCurrencies, outcome \in {"ok", "rejected"} :
        Apply(create_checkout_session(amount, currency, "card", NoneVal, outcome))

SurfaceEvents ==
    {event \in WebhookEvents :
        /\ event.type \in {Completed, Expired}
        /\ event.client_reference_id = Str(1)
        /\ event.payment_intent \in {NoneVal, "pi_1"}}

WebhookOne == \E sig \in Signatures, event \in SurfaceEvents : Apply(stripe_webhook(sig, event))

NextSurface ==
    \/ CheckoutCurrency
    \/ WebhookOne
    \/ GetOrder
    \/ GetPaymentMethods
    \/ GetCurrencies
    \/ InitializeAdmin
    \/ UpdateLocalKeys
    \/ UpdateStripeKey

SpecSurface == Init /\ [][NextSurface]_vars

----------------------------------------------------------------------------
(* Several worker processes on one database: a handler's database calls    *)
(* are steps, and the steps of two requests interleave                     *)

Workers == {1, 2}

NoEvent ==
    [type |-> NoneVal, client_reference_id |-> NoneVal,
     metadata_order_id |-> NoneVal, payment_intent |-> NoneVal]

\* A worker between requests. In a request: pc is the next step, order_id the
\* order, event the webhook event, loaded the Order object as db.get read it,
\* sid the session id the processor returned. `replaced` and `installed` are
\* not in the code: they record the status the row held immediately before
\* and immediately after the worker's UPDATE was committed.
Idle ==
    [pc |-> "idle", order_id |-> NoId, event |-> NoEvent,
     loaded |-> [amount |-> 0, currency |-> NoneVal, status |-> NoneVal,
                 stripe_session_id |-> NoneVal, payment_intent_id |-> NoneVal,
                 created_at |-> 0, updated_at |-> 0],
     sid |-> NoneVal, replaced |-> NoneVal, installed |-> NoneVal]

InitRace == InitRows /\ procs = [w \in Workers |-> Idle]

\* A step of worker w: the rows and clock it leaves, the response if the
\* request ends here, and the worker's locals
Step(w, db, resp, local) ==
    /\ db.now # now => now <= MaxRequests
    /\ orders' = db.orders
    /\ settings' = db.settings
    /\ users' = db.users
    /\ auditLog' = db.auditLog
    /\ stripeCalls' = db.stripeCalls
    /\ now' = db.now
    /\ last' = resp
    /\ procs' = [procs EXCEPT ![w] = local]
    /\ UNCHANGED issued

\* routes_checkout.py 44-48: the Order row is committed
CkCreate(w) ==
    /\ procs[w].pc = "idle"
    /\ \E amount \in Amounts, currency \in Currencies :
          Step(w, [Db EXCEPT !.orders = Append(orders, NewOrder(amount, Lower(currency))),
                             !.now = now + 1],
               last, [Idle EXCEPT !.pc = "ck_call", !.order_id = Len(orders) + 1])

\* routes_checkout.py 50-99: the method check and the call to the processor
CkCall(w) ==
    /\ procs[w].pc = "ck_call"
    /\ \E outcome \in {"ok", "rejected"} :
          LET order_id == procs[w].order_id
              sid == SessionIds[Len(stripeCalls) + 1]
              call == StripeRequest(get_stripe_secret_key, GeneratedKeys[order_id],
                                    "card", orders[order_id].currency,
                                    orders[order_id].amount, order_id)
          IN  IF MethodRejected("card")
              THEN Step(w, [Db EXCEPT !.auditLog =
                                ExceptAudit(InvalidMethodAudit(auditLog, order_id), order_id)],
                        [op |-> "checkout", status |-> 400,
                         body |-> [detail |-> "Invalid payment method"]], Idle)
              ELSE IF outcome = "ok"
              THEN Step(w, [Db EXCEPT !.stripeCalls = Append(stripeCalls, call)],
                        last, [procs[w] EXCEPT !.pc = "ck_load", !.sid = sid])
              ELSE Step(w, [Db EXCEPT !.stripeCalls = Append(stripeCalls, call),
                                      !.auditLog = ExceptAudit(auditLog, order_id)],
                        [op |-> "checkout", status |-> 400,
                         body |-> [detail |-> "Stripe API error"]], Idle)

\* routes_checkout.py 101-102: obj = db.get(Order, order.id)
CkLoad(w) ==
    /\ procs[w].pc = "ck_load"
    /\ Step(w, Db, last, [procs[w] EXCEPT !.pc = "ck_store",
                                          !.loaded = orders[procs[w].order_id]])

\* An UPDATE that writes every column of the object, changed or not
Flush_WholeRow(row, loaded, object) == object

\* db.add(obj); db.commit(): the UPDATE sets the columns whose value in the
\* object differs from the value loaded, on the row as it is now
Flush(row, loaded, object) ==
    [c \in DOMAIN row |-> IF object[c] # loaded[c] THEN object[c] ELSE row[c]]

\* routes_checkout.py 103-120: the session id is assigned to the object read
\* back and committed, the attempt is logged
CkStore(w) ==
    /\ procs[w].pc = "ck_store"
    /\ LET order_id == procs[w].order_id
           loaded == procs[w].loaded
           object == StoreSession([i \in {order_id} |-> loaded], order_id,
                                  procs[w].sid)[order_id]
       IN  Step(w, [Db EXCEPT
                      !.orders = [orders EXCEPT
                                    ![order_id] = Flush(orders[order_id], loaded, object)],
                      !.auditLog = log_audit_event(auditLog, NoId, "customer",
                                       "payment_attempt_created", "order", Str(order_id),
                                       NoneVal, NoneVal, "Payment session created")],
                [op |-> "checkout", status |-> 200,
                 body |-> [url |-> SessionUrl(procs[w].sid), order_id |-> order_id]],
                Idle)

\* Deliveries of the three handled event types for order 1, and one for an
\* order that does not exist
RaceEvents ==
    [type : {Completed}, client_reference_id : {Str(1)},
     metadata_order_id : {NoneVal}, payment_intent : {"pi_1"}]
    \cup
    [type : {Failed}, client_reference_id : {NoneVal},
     metadata_order_id : {Str(1)}, payment_intent : {NoneVal}]
    \cup
    [type : {Expired}, client_reference_id : {Str(1), Str(7)},
     metadata_order_id : {NoneVal}, payment_intent : {NoneVal}]

\* routes_webhooks.py 20-38: the signature check, order_id, and
\* order = db.get(Order, int(order_id)). A delivery that changes no row (bad
\* signature, no such order) is answered here as stripe_webhook answers it.
WhRead(w) ==
    /\ procs[w].pc = "idle"
    /\ \E event \in RaceEvents :
          LET r == stripe_webhook(get_stripe_webhook_secret, event)
              order_id == ParseInt(EventOrderId(event))
          IN  IF r.db = Db
              THEN Step(w, Db, r.resp, Idle)
              ELSE Step(w, Db, last,
                        [Idle EXCEPT !.pc = "wh_commit", !.order_id = order_id,
                                     !.event = event,
                                     !.loaded = orders[order_id]])


\* routes_webhooks.py 39-43 (and 59-63, 79-83): the assignments to the loaded
\* object and the commit
WhCommit(w) ==
    /\ procs[w].pc = "wh_commit"
    /\ LET order_id == procs[w].order_id
           row == orders[order_id]
           loaded == procs[w].loaded
           object == WebhookOrder(loaded, procs[w].event)
       IN  Step(w, [Db EXCEPT !.orders = [orders EXCEPT
                                            ![order_id] = Flush(row, loaded, object)],
                              !.now = now + 1],
                last, [procs[w] EXCEPT !.pc = "wh_audit", !.replaced = row.status,
                                       !.installed = Flush(row, loaded, object).status])

\* routes_webhooks.py 46-54 (and 66-74, 86-94): log_audit_event with
\* old_value=old_status, then {"received": True}
WhAudit(w) ==
    /\ procs[w].pc = "wh_audit"
    /\ LET event == procs[w].event
       IN  Step(w, [Db EXCEPT !.auditLog =
                        log_audit_event(auditLog, NoId, "stripe_webhook",
                            EventAction(event.type), "order", EventOrderId(event),
                            procs[w].loaded.status, EventStatus(event.type),
                            EventDetails(event))],
                [op |-> "webhook", status |-> 200, body |-> [received |-> TRUE]],
                Idle)

NextRace ==
    \/ \E w \in Workers : CkCreate(w)
    \/ \E w \in Workers : CkCall(w)
    \/ \E w \in Workers : CkLoad(w)
    \/ \E w \in Workers : CkStore(w)
    \/ \E w \in Workers : WhRead(w)
    \/ \E w \in Workers : WhCommit(w)
    \/ \E w \in Workers : WhAudit(w)

SpecRace == InitRace /\ [][NextRace]_vars

\* Deliveries for an order whose checkout has ended: the rows on_startup and
\* one accepted checkout of order 1 leave, the clock counted from then on
InitDeliveries ==
    /\ now = 1
    /\ orders = << [NewOrder(2000, "pln") EXCEPT !.stripe_session_id = SessionIds[1],
                                                !.created_at = 0, !.updated_at = 0] >>
    /\ users = << [username |-> "admin", password_hash |-> get_password_hash("admin123"),
                    is_active |-> TRUE] >>
    /\ settings =
         [k \in {d[1] : d \in Range(DefaultSettings)} |->
            LET d == CHOOSE d \in Range(DefaultSettings) : d[1] = k
            IN  [value |-> d[2], description |-> d[3],
                 updated_at |-> 0, updated_by |-> 1]]
    /\ auditLog = << [log_audit_event(<<>>, NoId, "customer", "payment_attempt_created",
                                       "order", Str(1), NoneVal, NoneVal,
                                       "Payment session created")[1]
                        EXCEPT !.created_at = 0] >>
    /\ stripeCalls = << StripeRequest("sk_test_your_stripe_secret_key_here",
                                       GeneratedKeys[1], "card", "pln", 2000, 1) >>
    /\ last = [op |-> "checkout", status |-> 200,
               body |-> [url |-> SessionUrl(SessionIds[1]), order_id |-> 1]]
    /\ issued = {}
    /\ procs = [w \in Workers |-> Idle]

NextDeliveries ==
    \/ \E w \in Workers : WhRead(w)
    \/ \E w \in Workers : WhCommit(w)
    \/ \E w \in Workers : WhAudit(w)

SpecDeliveries == InitDeliveries /\ [][NextDeliveries]_vars

----------------------------------------------------------------------------
(* The admin panel, from an empty database                                 *)

InitEmpty ==
    /\ orders = <<>>
    /\ users = <<>>
    /\ settings = [k \in {} |-> NoneVal]
    /\ auditLog = <<>>
    /\ stripeCalls = <<>>
    /\ now = 0
    /\ last = [op |-> "boot", status |-> 0, body |-> [detail |-> ""]]
    /\ issued = {}
    /\ procs = <<>>

\* Tokens a caller can present: the ones login returned, and ones it never made
Usernames == {"admin", "mallory", ""}
Passwords == {"admin123", "guess"}

ForeignTokens ==
    { [sub |-> NoneVal, exp |-> 0, key |-> NoneVal],
      [sub |-> "admin", exp |-> MaxRequests + TokenLifetime, key |-> OtherKey],
      [sub |-> NoneVal, exp |-> MaxRequests + TokenLifetime, key |-> SECRET_KEY],
      [sub |-> "mallory", exp |-> MaxRequests + TokenLifetime, key |-> SECRET_KEY] }

Tokens == issued \cup ForeignTokens

\* The tokens the panel's requests are sent with
Presented ==
    issued \cup {t \in ForeignTokens : t.key = NoneVal \/ t.sub = "mallory"}

PanelWrites ==
    { <<"PAYMENT_METHODS", "card,blik">>, <<"SHOP_NAME", "demo">>, <<"SHOP_NAME", "shop">> }

LoginAttempts == { <<"admin", "admin123">>, <<"admin", "guess">>, <<"", "admin123">> }

Login == \E a \in LoginAttempts : Apply(login(a[1], a[2]))

GetSettings == \E token \in Presented : Apply(get_settings(token))

UpdateSettingRequest ==
    \E token \in Presented, w \in PanelWrites :
        Apply(update_setting_request(token, w[1], w[2]))

DebugStripeKeys == \E token \in Presented : Apply(debug_stripe_keys(token))

\* limit, offset and action of the queries the panel sends
AuditQueries == { <<100, 0, NoneVal>>, <<1, 1, "setting_update">> }

GetAuditLogs ==
    \E token \in Presented, q \in AuditQueries, ties \in {"asc", "desc"} :
        Apply(get_audit_logs(token, q[1], q[2], q[3], NoneVal, NoneVal, ties))

\* UPDATE adminuser SET is_active = 0, by whoever administers the database
DeactivateUser ==
    \E i \in DOMAIN users :
        /\ users[i].is_active
        /\ Apply(Result([Db EXCEPT !.users = [users EXCEPT ![i].is_active = FALSE]],
                        "deactivate", 0, [detail |-> ""]))

\* Time passes
Tick ==
    /\ now <= MaxRequests
    /\ now' = now + 1
    /\ UNCHANGED <<orders, settings, users, auditLog, stripeCalls, last, issued, procs>>

NextAdmin ==
    \/ OnStartup
    \/ InitializeAdmin
    \/ Login
    \/ GetSettings
    \/ UpdateSettingRequest
    \/ DebugStripeKeys
    \/ GetAuditLogs
    \/ DeactivateUser
    \/ Tick

SpecAdmin == InitEmpty /\ [][NextAdmin]_vars

\* Seeding (on_startup, POST /admin/init, init_db.py) between the panel's
\* logins and writes
NextSeed ==
    \/ OnStartup
    \/ InitializeAdmin
    \/ InitializeDatabase
    \/ Login
    \/ UpdateSettingRequest
    \/ DeactivateUser

SpecSeed == InitEmpty /\ [][NextSeed]_vars

----------------------------------------------------------------------------
(* Two workers on the AppSettings table: set_setting, on_startup and POST  *)
(* /admin/init step by step. Here `settings` is the table by row id, each   *)
(* row with its key column, as models.py 22-28 declares it                  *)

\* AppSettings(key=..., value=..., description=..., updated_by=...)
SettingRow(key, value, description, user_id) ==
    [key |-> key, value |-> value, description |-> description,
     updated_at |-> now, updated_by |-> user_id]

\* select(AppSettings).where(AppSettings.key == key) ... .first(): the id of
\* the row, NoId when there is none
FirstByKey(table, key) ==
    IF \E i \in DOMAIN table : table[i].key = key
    THEN CHOOSE i \in DOMAIN table :
            /\ table[i].key = key
            /\ \A j \in DOMAIN table : table[j].key = key => i <= j
    ELSE NoId

\* A key column without the unique index
IntegrityError_NoIndex(table, pending) == FALSE

\* key: str = Field(unique=True, index=True): the INSERT of a key that has a
\* row (or twice in one transaction) fails at commit
IntegrityError(table, pending) ==
    \/ \E i \in DOMAIN pending, j \in DOMAIN table : pending[i].key = table[j].key
    \/ \E i, j \in DOMAIN pending : i # j /\ pending[i].key = pending[j].key

\* The rows of default_settings whose key has no row in the table
MissingRows(table, defaults, user_id) ==
    LET missing(d) == FirstByKey(table, d[1]) = NoId
        row(d) == SettingRow(d[1], d[2], d[3], user_id)
    IN  [i \in DOMAIN SelectSeq(defaults, missing) |->
            row(SelectSeq(defaults, missing)[i])]

AdminId(rows) == CHOOSE i \in DOMAIN rows : rows[i].username = "admin"

Resting ==
    [pc |-> "idle", op |-> NoneVal, key |-> NoneVal, value |-> NoneVal,
     user_id |-> NoId, found |-> NoId,
     loaded |-> [key |-> NoneVal, value |-> NoneVal, description |-> NoneVal,
                 updated_at |-> 0, updated_by |-> NoId],
     pending |-> <<>>]

\* An empty database, no request in progress
InitWriters ==
    /\ orders = <<>>
    /\ users = <<>>
    /\ settings = <<>>
    /\ auditLog = <<>>
    /\ stripeCalls = <<>>
    /\ now = 0
    /\ last = [op |-> "boot", status |-> 0, body |-> [detail |-> ""]]
    /\ issued = {}
    /\ procs = [w \in Workers |-> Resting]

\* The values two administrators put under one key
RacingWrites == { <<"PAYMENT_METHODS", "card">>, <<"PAYMENT_METHODS", "p24">> }

\* auth.py 65-69, for a PUT by the admin account: the row is selected by key
SetRead(w) ==
    /\ procs[w].pc = "idle"
    /\ \E i \in DOMAIN users : users[i].username = "admin"
    /\ \E wr \in RacingWrites :
          LET found == FirstByKey(settings, wr[1])
          IN  Step(w, Db, last,
                   [Resting EXCEPT !.pc = "set_commit", !.op = "update_setting",
                                   !.key = wr[1], !.value = wr[2],
                                   !.user_id = AdminId(users), !.found = found,
                                   !.loaded = IF found = NoId THEN Resting.loaded
                                              ELSE settings[found]])

\* The object set_setting commits: the loaded row with its four attributes
\* assigned (auth.py 71-76), or a new row (auth.py 77-85)
SetObject(local) ==
    IF local.found # NoId
    THEN [local.loaded EXCEPT !.value = local.value, !.description = NoneVal,
                              !.updated_at = now, !.updated_by = local.user_id]
    ELSE SettingRow(local.key, local.value, NoneVal, local.user_id)

\* auth.py 87: db.commit(), an UPDATE of the row loaded or an INSERT; an
\* INSERT refused by the unique index leaves the route without an answer of
\* its own (500)
SetCommit(w) ==
    /\ procs[w].pc = "set_commit"
    /\ LET local == procs[w]
           object == SetObject(local)
       IN  IF local.found # NoId
           THEN Step(w, [Db EXCEPT
                           !.settings = [settings EXCEPT
                                           ![local.found] = Flush(settings[local.found], local.loaded, object)],
                           !.now = now + 1],
                     last, [local EXCEPT !.pc = "answer"])
           ELSE IF IntegrityError(settings, <<object>>)
           THEN Step(w, Db, [op |-> "update_setting", status |-> 500,
                             body |-> [detail |-> "IntegrityError"]], Resting)
           ELSE Step(w, [Db EXCEPT !.settings = Append(settings, object),
                                   !.now = now + 1],
                     last, [local EXCEPT !.pc = "answer"])

\* main.py 20-34: the admin account if there is none, then the count of the
\* settings; the six rows are built when it is 0
StartupRead(w) ==
    /\ procs[w].pc = "idle"
    /\ LET accounts == WithAdmin(users)
           pending == IF Len(settings) = 0
                      THEN MissingRows(<<>>, DefaultSettings, AdminId(accounts))
                      ELSE <<>>
           db == [Db EXCEPT !.users = accounts,
                            !.now = IF accounts # users THEN now + 1 ELSE now]
       IN  IF pending = <<>>
           THEN Step(w, db, [op |-> "startup", status |-> 0, body |-> [detail |-> ""]],
                     Resting)
           ELSE Step(w, db, last,
                     [Resting EXCEPT !.pc = "seed_commit", !.op = "startup",
                                     !.pending = pending])

\* routes_admin.py 255-286: the admin account if there is none, then a row
\* for every default key that has none
InitRead(w) ==
    /\ procs[w].pc = "idle"
    /\ LET accounts == WithAdmin(users)
       IN  Step(w, [Db EXCEPT !.users = accounts,
                              !.now = IF accounts # users THEN now + 1 ELSE now],
                last,
                [Resting EXCEPT !.pc = "seed_commit", !.op = "init",
                                !.pending = MissingRows(settings, InitSettings, NoId)])

\* main.py 53, routes_admin.py 288: db.commit() of the rows added; one row
\* refused by the unique index and none is inserted
SeedCommit(w) ==
    /\ procs[w].pc = "seed_commit"
    /\ LET local == procs[w]
           failed == [op |-> local.op, status |-> 500,
                      body |-> [detail |-> "IntegrityError"]]
           db == [Db EXCEPT !.settings = settings \o local.pending,
                            !.now = now + 1]
       IN  IF IntegrityError(settings, local.pending)
           THEN Step(w, Db, failed, Resting)
           ELSE IF local.op = "startup"
           THEN Step(w, db, [op |-> "startup", status |-> 0, body |-> [detail |-> ""]],
                     Resting)
           ELSE Step(w, db, last, [local EXCEPT !.pc = "answer"])

\* auth.py 90-101 and routes_admin.py 143-163, routes_admin.py 290-299: the
\* audit entries of the request and its answer
Answer(w) ==
    /\ procs[w].pc = "answer"
    /\ LET local == procs[w]
           old_value == IF local.found = NoId THEN NoneVal ELSE local.loaded.value
           action == IF local.found = NoId THEN "setting_create" ELSE "setting_update"
       IN  IF local.op = "update_setting"
           THEN Step(w, [Db EXCEPT
                           !.auditLog = log_audit_event(
                               log_audit_event(auditLog, local.user_id, NoneVal, action,
                                   "setting", local.key, old_value, local.value, NoneVal),
                               local.user_id, users[local.user_id].username,
                               "setting_update", "setting", local.key, NoneVal,
                               local.value, "Updated via admin panel")],
                     [op |-> "update_setting", status |-> 200,
                      body |-> [key |-> local.key, value |-> local.value]], Resting)
           ELSE Step(w, [Db EXCEPT
                           !.auditLog = log_audit_event(auditLog, NoId, "system",
                               "admin_init", "system", "admin_panel", NoneVal, NoneVal,
                               "Admin user and settings initialized")],
                     [op |-> "init", status |-> 200,
                      body |-> [message |-> "Admin user and settings initialized successfully"]],
                     Resting)

NextWriters ==
    \/ \E w \in Workers : SetRead(w)
    \/ \E w \in Workers : SetCommit(w)
    \/ \E w \in Workers : StartupRead(w)
    \/ \E w \in Workers : InitRead(w)
    \/ \E w \in Workers : SeedCommit(w)
    \/ \E w \in Workers : Answer(w)

SpecWriters == InitWriters /\ [][NextWriters]_vars


----------------------------------------------------------------------------
(* Order status                                                            *)

Terminal == {"paid", "failed", "expired"}

\* C1: an order's status changes only along pending->paid, pending->failed or
\* pending->expired: once it is paid, failed or expired no request changes it
\* to a different status.
C1_TerminalStatusIsFinal ==
    [][\A i \in DOMAIN orders :
          /\ i \in DOMAIN orders'
          /\ orders'[i].status # orders[i].status
                => orders[i].status = "pending" /\ orders'[i].status \in Terminal]_vars

\* C2: no request sets an existing order's status back to pending: an order
\* that is pending after a step was pending before it or is the row a checkout
\* request has just created, so a paid, failed or expired order is never
\* pending again.
C2_NeverBackToPending ==
    [][\A i \in DOMAIN orders' :
          orders'[i].status = "pending"
             => \/ i \in DOMAIN orders /\ orders[i].status = "pending"
                \/ i \notin DOMAIN orders /\ last'.op = "checkout"]_vars

\* A webhook event was applied to an order that had already left pending
C2_Witness ==
    \E i \in DOMAIN orders, k \in DOMAIN auditLog :
        /\ orders[i].status \in Terminal
        /\ auditLog[k].username = "stripe_webhook"
        /\ auditLog[k].resource_id = Str(i)
        /\ auditLog[k].old_value \in Terminal

----------------------------------------------------------------------------
(* Webhook reconciler                                                      *)

\* The step is the handling of a request with result r
Handles(r) ==
    /\ orders' = r.db.orders
    /\ settings' = r.db.settings
    /\ auditLog' = r.db.auditLog
    /\ stripeCalls' = r.db.stripeCalls
    /\ now' = r.db.now
    /\ last' = r.resp
    /\ users' = r.db.users

\* The request was signed with the shared secret now in the settings
Authentic(sig) == sig = settings["STRIPE_WEBHOOK_SECRET"].value

\* C3: a webhook request whose signature does not verify is answered with a
\* client error and leaves every Order row and the audit log as they were.
C3_UnverifiedWebhookTouchesNothing ==
    \A sig \in Signatures, event \in WebhookEvents :
        ~Authentic(sig) =>
            LET r == stripe_webhook(sig, event)
            IN  /\ r.resp.status \in 400..499
                /\ r.db.orders = orders
                /\ r.db.auditLog = auditLog

\* An unverified request was refused while a pending order existed
C3_Witness ==
    /\ last.op = "webhook"
    /\ last.status = 400
    /\ \E i \in DOMAIN orders : orders[i].status = "pending"

\* The transition table of the reconciler
C4_Table(type) ==
    CASE type = Completed -> [status |-> "paid", action |-> "payment_completed"]
      [] type = Failed -> [status |-> "failed", action |-> "payment_failed"]
      [] type = Expired -> [status |-> "expired", action |-> "payment_session_expired"]

\* The order an event references: payment intents name it in their metadata
C4_Ref(event) ==
    IF event.type = Failed THEN event.metadata_order_id ELSE event.client_reference_id

\* C4: a verified session-completed, payment-failed or session-expired event
\* that references an existing order sets the order's status as the table
\* says (and, when completed, stores the event's payment intent), sets
\* updated_at to the current time, leaves the other orders alone and appends
\* exactly one audit entry, with the table's action, for that order.
C4_TransitionTable ==
    \A sig \in Signatures, event \in WebhookEvents, i \in DOMAIN orders :
        (Authentic(sig) /\ event.type \in {Completed, Failed, Expired}
            /\ C4_Ref(event) = Str(i)) =>
            LET r == stripe_webhook(sig, event)
            IN  /\ r.resp.status = 200
                /\ DOMAIN r.db.orders = DOMAIN orders
                /\ r.db.orders[i].status = C4_Table(event.type).status
                /\ event.type = Completed =>
                       r.db.orders[i].payment_intent_id = event.payment_intent
                /\ r.db.orders[i].updated_at = now
                /\ r.db.orders[i].updated_at > orders[i].updated_at
                /\ \A j \in DOMAIN orders : j # i => r.db.orders[j] = orders[j]
                /\ Len(r.db.auditLog) = Len(auditLog) + 1
                /\ SubSeq(r.db.auditLog, 1, Len(auditLog)) = auditLog
                /\ r.db.auditLog[Len(auditLog) + 1].action = C4_Table(event.type).action
                /\ r.db.auditLog[Len(auditLog) + 1].resource_id = Str(i)

\* Two events of different types were applied to an order: it is expired or
\* failed and still holds the payment intent of the completed event
C4_Witness ==
    /\ last.op = "webhook"
    /\ last.status = 200
    /\ \E i \in DOMAIN orders :
          /\ orders[i].status \in {"failed", "expired"}
          /\ orders[i].payment_intent_id \in PaymentIntents
          /\ orders[i].updated_at = now - 1
          /\ auditLog[Len(auditLog)].action \in {"payment_failed", "payment_session_expired"}

\* C5: a verified checkout.session.completed event for a known pending order
\* sets it to paid and stores the event's payment intent; delivered again to
\* the order it has already updated, it leaves status and payment intent as
\* the first delivery left them.
C5_CompletedIsIdempotent ==
    \A sig \in Signatures, event \in WebhookEvents, i \in DOMAIN orders :
        (Authentic(sig) /\ event.type = Completed
            /\ event.client_reference_id = Str(i)) =>
            LET r == stripe_webhook(sig, event)
            IN  /\ orders[i].status = "pending" =>
                      /\ r.db.orders[i].status = "paid"
                      /\ r.db.orders[i].payment_intent_id = event.payment_intent
                /\ (orders[i].status = "paid"
                      /\ orders[i].payment_intent_id = event.payment_intent) =>
                      /\ r.db.orders[i].status = orders[i].status
                      /\ r.db.orders[i].payment_intent_id = orders[i].payment_intent_id

\* The same completed event was delivered twice in a row to an order
C5_Witness ==
    \E i \in DOMAIN orders, k \in DOMAIN auditLog :
        /\ k + 1 \in DOMAIN auditLog
        /\ auditLog[k].action = "payment_completed"
        /\ auditLog[k].resource_id = Str(i)
        /\ auditLog[k].old_value = "pending"
        /\ auditLog[k + 1].action = "payment_completed"
        /\ auditLog[k + 1].resource_id = Str(i)
        /\ auditLog[k + 1].details = auditLog[k].details
        /\ orders[i].status = "paid"
        /\ orders[i].payment_intent_id = auditLog[k].details

\* The event names no order, or an order id that no Order row has
C6_NoSuchOrder(event) ==
    LET ref == IF event.type = Failed /\ Truthy(event.metadata_order_id)
               THEN event.metadata_order_id ELSE event.client_reference_id
    IN  ~Truthy(ref) \/ ~\E i \in DOMAIN orders : Str(i) = ref

\* C6: a verified event whose order id is missing or matches no Order row is
\* acknowledged without an error and changes neither the audit log nor any
\* Order row.
C6_UnknownOrderIsIgnored ==
    [][\A sig \in Signatures, event \in WebhookEvents :
          (Authentic(sig) /\ C6_NoSuchOrder(event)
              /\ Handles(stripe_webhook(sig, event))) =>
              /\ last'.status = 200
              /\ last'.body = [received |-> TRUE]
              /\ auditLog' = auditLog
              /\ orders' = orders]_vars

----------------------------------------------------------------------------
(* Checkout session initiator                                              *)

\* What can happen to a request that reaches the handler's own checks (no
\* exception is raised before the order exists)
ProcessorOutcomes == {"ok", "rejected", "raise"}

\* The payment method is not in the set the settings enable
NotEnabled(method) == method \notin Range(AvailableMethods)

\* The rows of `after` that `before` does not have
NewRows(before, after) == {i \in DOMAIN after : i \notin DOMAIN before}

C8_NoOrderBeforeValidation ==
    [][\A amount \in Amounts, currency \in Currencies, method \in Methods,
         idem \in IdempotencyKeys, outcome \in ProcessorOutcomes :
          (NotEnabled(method)
              /\ Handles(create_checkout_session(amount, currency, method, idem, outcome)))
              => orders' = orders]_vars

\* The currency is not in the set the settings support
NotSupported(currency) == Lower(currency) \notin Range(SupportedCurrencies)

\* C11: a checkout request whose currency is not in the configured
\* SUPPORTED_CURRENCIES set is rejected with a client error and no session is
\* requested from the processor for it.
C11_UnsupportedCurrencyIsRejected ==
    [][\A amount \in Amounts, currency \in RequestCurrencies, method \in Methods,
         idem \in IdempotencyKeys, outcome \in ProcessorOutcomes :
          (NotSupported(currency)
              /\ Handles(create_checkout_session(amount, currency, method, idem, outcome)))
              => /\ last'.status \in 400..499
                 /\ stripeCalls' = stripeCalls]_vars

\* C9 (the response and the rows): a checkout request with a positive amount
\* and an enabled payment method that the processor accepts answers 200 with
\* the session's URL and the id of the order it created; that order is pending
\* and holds the session id; one audit entry, payment_attempt_created, is
\* appended for it; GET /orders/{id} then returns the row, status pending.
C9_Created ==
    \A amount \in Amounts, currency \in Currencies, method \in Methods,
       idem \in IdempotencyKeys :
        (amount > 0 /\ ~NotEnabled(method)) =>
            LET r == create_checkout_session(amount, currency, method, idem, "ok")
                id == r.resp.body.order_id
            IN  /\ r.resp.status = 200
                /\ NewRows(orders, r.db.orders) = {id}
                /\ r.db.orders[id].status = "pending"
                /\ r.db.orders[id].stripe_session_id # NoneVal
                /\ r.resp.body.url = SessionUrl(r.db.orders[id].stripe_session_id)
                /\ Len(r.db.stripeCalls) = Len(stripeCalls) + 1
                /\ r.db.stripeCalls[Len(stripeCalls) + 1].client_reference_id = Str(id)
                /\ Len(r.db.auditLog) = Len(auditLog) + 1
                /\ r.db.auditLog[Len(auditLog) + 1].action = "payment_attempt_created"
                /\ r.db.auditLog[Len(auditLog) + 1].resource_id = Str(id)

\* C9 (until a webhook event is processed): GET /orders/{id} answers with the
\* row's status, and only a webhook request takes an order out of pending.
C9_PendingUntilWebhook ==
    /\ \A i \in DOMAIN orders :
          /\ get_order(i).resp.status = 200
          /\ get_order(i).resp.body.status = orders[i].status
    /\ \A i \in DOMAIN orders :
          (orders[i].status = "pending" /\ last'.op # "webhook")
              => orders'[i].status = "pending"

\* C9: see C9_Created and C9_PendingUntilWebhook.
C9_CheckoutCreatesPendingOrder == [](C9_Created) /\ [][C9_PendingUntilWebhook]_vars

\* After a successful checkout and other requests, GET returned the order,
\* still pending with its session id
C9_Witness ==
    /\ last.op = "get_order"
    /\ last.status = 200
    /\ last.body.status = "pending"
    /\ last.body.stripe_session_id # NoneVal
    /\ now > last.body.created_at + 1
    /\ \E k \in DOMAIN auditLog : auditLog[k].action = "payment_attempt_created"

\* C10: when the processor refuses the session request or the call raises,
\* the answer is 400 with the error's detail, the order the request created
\* stays pending without a session id, and one audit entry tagged
\* payment_attempt_failed is written for it; when the failure comes before the
\* order is created the answer is 400 and nothing is written.
C10_ProcessorFailure ==
    \A amount \in Amounts, currency \in Currencies, method \in Methods,
       idem \in IdempotencyKeys :
        /\ ~NotEnabled(method) =>
              \A outcome \in {"rejected", "raise"} :
                LET r == create_checkout_session(amount, currency, method, idem, outcome)
                    id == Len(orders) + 1
                IN  /\ r.resp.status = 400
                    /\ r.resp.body.detail \in {"Stripe API error", "connection error"}
                    /\ NewRows(orders, r.db.orders) = {id}
                    /\ r.db.orders[id].status = "pending"
                    /\ r.db.orders[id].stripe_session_id = NoneVal
                    /\ \A i \in DOMAIN orders : r.db.orders[i] = orders[i]
                    /\ Len(r.db.auditLog) = Len(auditLog) + 1
                    /\ SubSeq(r.db.auditLog, 1, Len(auditLog)) = auditLog
                    /\ r.db.auditLog[Len(auditLog) + 1].action = "payment_attempt_failed"
                    /\ r.db.auditLog[Len(auditLog) + 1].resource_id = Str(id)
        /\ LET r == create_checkout_session(amount, currency, method, idem, "db_error")
           IN  /\ r.resp.status = 400
               /\ r.db.auditLog = auditLog
               /\ r.db.orders = orders

\* The processor refused a request: the order is pending without a session
\* and the failure is in the audit log
C10_Witness ==
    /\ last.op = "checkout"
    /\ last.status = 400
    /\ last.body.detail = "Stripe API error"
    /\ Len(stripeCalls) > 0
    /\ orders[Len(orders)].status = "pending"
    /\ orders[Len(orders)].stripe_session_id = NoneVal
    /\ auditLog[Len(auditLog)].action = "payment_attempt_failed"
    /\ auditLog[Len(auditLog)].resource_id = Str(Len(orders))

----------------------------------------------------------------------------
(* Settings service                                                        *)

\* The keys the panel writes and the keys that have a row
SettingKeys == DOMAIN settings \cup {w[1] : w \in PanelWrites}

\* C12 (set): a set(key, value, description, actor) that the panel performs
\* leaves get(key) = value and the other keys as they were, and appends an
\* audit entry for the key by the actor: setting_update with old_value the
\* previous value and new_value the new one when the row existed,
\* setting_create when it did not.
C12_Set ==
    \A token \in Tokens, w \in PanelWrites :
        LET r == update_setting_request(token, w[1], w[2])
            n == Len(auditLog)
        IN  (last'.op = "update_setting" /\ Handles(r) /\ r.resp.status = 200) =>
                /\ get_setting(w[1])' = w[2]
                /\ \A k \in SettingKeys \ {w[1]} : get_setting(k)' = get_setting(k)
                /\ Len(auditLog') > n
                /\ SubSeq(auditLog', 1, n) = auditLog
                /\ auditLog'[n + 1].action =
                       IF get_setting(w[1]) = NoneVal THEN "setting_create"
                                                      ELSE "setting_update"
                /\ auditLog'[n + 1].resource_type = "setting"
                /\ auditLog'[n + 1].resource_id = w[1]
                /\ auditLog'[n + 1].old_value = get_setting(w[1])
                /\ auditLog'[n + 1].new_value = w[2]
                /\ auditLog'[n + 1].user_id = get_current_user(token).id

\* C12 (get): get(key) is absent until the key's row is written, and changes
\* only when a set for the key commits (or startup or init insert the row).
C12_Get ==
    \A k \in SettingKeys :
        /\ (k \notin DOMAIN settings) = (get_setting(k) = NoneVal)
        /\ get_setting(k)' # get_setting(k) =>
               \/ /\ last'.op = "update_setting"
                  /\ last'.status = 200
                  /\ last'.body.key = k
                  /\ get_setting(k)' = last'.body.value
               \/ /\ last'.op \in {"startup", "init"}
                  /\ get_setting(k) = NoneVal

\* C12: see C12_Set and C12_Get.
C12_GetSetContract == [][C12_Set /\ C12_Get]_vars

\* A key was created through the panel and then set again: get returns the
\* second value, and the log has the create and the update with the first
\* value as old_value
C12_Witness ==
    /\ get_setting("SHOP_NAME") = "shop"
    /\ \E i, j \in DOMAIN auditLog :
          /\ i < j
          /\ auditLog[i].action = "setting_create"
          /\ auditLog[i].resource_id = "SHOP_NAME"
          /\ auditLog[i].old_value = NoneVal
          /\ auditLog[i].new_value = "demo"
          /\ auditLog[j].action = "setting_update"
          /\ auditLog[j].resource_id = "SHOP_NAME"
          /\ auditLog[j].old_value = "demo"
          /\ auditLog[j].new_value = "shop"

----------------------------------------------------------------------------
(* Admin authentication                                                    *)

\* The username names an account, the password is the one its hash was made
\* from, and the account is active
GoodCredentials(username, password) ==
    \E i \in DOMAIN users :
        /\ users[i].username = username
        /\ users[i].password_hash = get_password_hash(password)
        /\ users[i].is_active

\* C13: POST /admin/login answers with a bearer token, bound to the username
\* and limited in time, exactly when the username exists, the password
\* matches the stored hash and the account is active, and then appends one
\* login_success entry; otherwise it answers 401 with no token and appends
\* one login_failed entry whose resource_id is the attempted username (and
\* whose username column is too; the column reads "system" when the
\* attempted username is the empty string).
C13_Login ==
    \A username \in Usernames, password \in Passwords :
        LET r == login(username, password)
            n == Len(auditLog)
            entry == r.db.auditLog[n + 1]
        IN  /\ Len(r.db.auditLog) = n + 1
            /\ SubSeq(r.db.auditLog, 1, n) = auditLog
            /\ r.db.settings = settings
            /\ r.db.users = users
            /\ GoodCredentials(username, password) =>
                   /\ r.resp.status = 200
                   /\ r.resp.body.token_type = "bearer"
                   /\ r.resp.body.access_token.sub = username
                   /\ r.resp.body.access_token.exp > now
                   /\ entry.action = "login_success"
                   /\ entry.username = username
            /\ ~GoodCredentials(username, password) =>
                   /\ r.resp.status = 401
                   /\ TokensIn(r.resp) = {}
                   /\ entry.action = "login_failed"
                   /\ entry.resource_id = username
                   /\ entry.username = IF username = "" THEN "system" ELSE username

\* The administrator logged in, the account was then disabled, and a login
\* with the right password was refused and logged under the name admin
C13_Witness ==
    /\ last.op = "login"
    /\ last.status = 401
    /\ last.body.detail = "User account is disabled"
    /\ issued # {}
    /\ auditLog[Len(auditLog)].action = "login_failed"
    /\ auditLog[Len(auditLog)].username = "admin"
    /\ \E k \in DOMAIN auditLog : auditLog[k].action = "login_success"

\* The token cannot be decoded with the application's key, or is past its
\* expiry, or names no account
Rejected(token) ==
    \/ token.key # SECRET_KEY
    \/ token.exp <= now
    \/ ~\E i \in DOMAIN users : users[i].username = token.sub

\* The requests behind get_current_user, sent with `token`
AdminRequests(token) ==
    {get_settings(token), get_audit_logs(token, 100, 0, NoneVal, NoneVal, NoneVal, "asc")}
        \cup {update_setting_request(token, w[1], w[2]) : w \in PanelWrites}

\* C14: GET /admin/settings, PUT /admin/settings/{key} and GET
\* /admin/audit-logs are served when the token was issued by a successful
\* login, has not expired and its subject is an account; with a token that
\* is malformed or wrongly signed, expired, or whose subject is no account
\* they answer 401 and change no setting and no audit entry.
C14_TokenGuardsAdminEndpoints ==
    \A token \in Tokens :
        \A r \in AdminRequests(token) :
            /\ (token \in issued /\ ~Rejected(token)) => r.resp.status = 200
            /\ Rejected(token) =>
                   /\ r.resp.status = 401
                   /\ r.db.settings = settings
                   /\ r.db.auditLog = auditLog
                   /\ r.db.users = users

\* A token served a settings update and, now expired, has just been refused
C14_Witness ==
    /\ last.op \in {"get_settings", "update_setting", "audit_logs"}
    /\ last.status = 401
    /\ \E token \in issued, k \in DOMAIN auditLog :
          /\ token.exp <= now
          /\ auditLog[k].action = "setting_update"
          /\ auditLog[k].username = token.sub
          /\ auditLog[k].created_at < token.exp
    /\ \A token \in issued : token.exp <= now

----------------------------------------------------------------------------
(* Audit trail                                                             *)

\* C15: the audit log is append-only: every step leaves each existing entry
\* in place with all its fields, so every entry of an earlier state is in
\* every later state, unchanged.
C15_AuditLogIsAppendOnly ==
    [][/\ Len(auditLog') >= Len(auditLog)
       /\ \A k \in DOMAIN auditLog : auditLog'[k] = auditLog[k]]_vars

\* The same event for the same order was logged twice: both entries are kept
C15_Witness ==
    \E i, j \in DOMAIN auditLog :
        /\ i < j
        /\ auditLog[i].action = auditLog[j].action
        /\ auditLog[i].resource_id = auditLog[j].resource_id
        /\ auditLog[i].username = "stripe_webhook"
        /\ auditLog[i].created_at < auditLog[j].created_at

\* C16: every step that creates or modifies an Order, AppSettings or
\* AdminUser row appends at least one audit entry.
C16_EveryChangeIsAudited ==
    [][(orders' # orders \/ settings' # settings \/ users' # users)
          => Len(auditLog') > Len(auditLog)]_vars

\* A filter was supplied: the parameter is present and not empty
Given(filter) == filter # NoneVal /\ filter # ""

\* The entries that match every supplied filter
C17_Matching(action, username, resource_type) ==
    {i \in DOMAIN auditLog :
        /\ Given(action) => auditLog[i].action = action
        /\ Given(username) => auditLog[i].username = username
        /\ Given(resource_type) => auditLog[i].resource_type = resource_type}

C17_Limits == {0, 1, 100}
C17_Offsets == {0, 1}
C17_Actions == {NoneVal, "setting_update"}
C17_Usernames == {NoneVal, "", "admin"}
C17_ResourceTypes == {NoneVal, "setting"}

\* The requests that only read: they leave every row as it was, so the log a
\* query can meet is the log some other request has left
Reads == {"get_settings", "debug_stripe_keys", "audit_logs"}

\* C17: for a caller with a valid token GET /admin/audit-logs changes no
\* state and returns entries of the log, each once and with its fields, that
\* match every supplied filter; newest first by creation time; as many as
\* the matching entries left after the first `offset`, at most `limit`; and
\* the k-th returned entry has rank offset + k among the matching entries.
C17_AuditQuery ==
  (last.op \notin Reads /\ \E t \in issued : ~Rejected(t)) =>
    \A token \in {CHOOSE t \in issued : ~Rejected(t)} :
      \A limit \in C17_Limits, offset \in C17_Offsets, action \in C17_Actions,
         username \in C17_Usernames, resource_type \in C17_ResourceTypes,
         ties \in {"asc", "desc"} :
        LET r == get_audit_logs(token, limit, offset, action, username, resource_type, ties)
            logs == r.resp.body.logs
            M == C17_Matching(action, username, resource_type)
            left == IF Cardinality(M) > offset THEN Cardinality(M) - offset ELSE 0
            at(k) == logs[k].entry.created_at
        IN  /\ r.resp.status = 200
            /\ r.db = Db
            /\ Len(logs) = IF left < limit THEN left ELSE limit
            /\ \A k \in DOMAIN logs :
                  /\ logs[k].id \in M
                  /\ logs[k].entry = auditLog[logs[k].id]
                  /\ \A l \in DOMAIN logs : l # k => logs[l].id # logs[k].id
                  /\ \A l \in DOMAIN logs : k < l => at(k) >= at(l)
                  /\ Cardinality({i \in M : auditLog[i].created_at > at(k)}) <= offset + k - 1
                  /\ Cardinality({i \in M : auditLog[i].created_at >= at(k)}) >= offset + k

\* With other entries in the log, the query for setting_update at offset 1,
\* limit 1 has returned one entry, and a newer or equally new one was skipped
C17_Witness ==
    /\ last.op = "audit_logs"
    /\ last.status = 200
    /\ Len(last.body.logs) = 1
    /\ last.body.logs[1].entry.action = "setting_update"
    /\ \E i \in DOMAIN auditLog :
          /\ i # last.body.logs[1].id
          /\ auditLog[i].action = "setting_update"
          /\ auditLog[i].created_at >= last.body.logs[1].entry.created_at
    /\ \E i \in DOMAIN auditLog : auditLog[i].action = "login_failed"


----------------------------------------------------------------------------
(* Order rows under interleaved requests (SpecRace)                        *)

\* The step is worker w committing a webhook delivery's UPDATE of order i
WebhookCommits(w, i) ==
    procs[w].pc = "wh_commit" /\ procs[w].order_id = i /\ procs'[w].pc = "wh_audit"

\* The step is worker w storing the session id of the order i it created
CheckoutStores(w, i) ==
    procs[w].pc = "ck_store" /\ procs[w].order_id = i /\ procs'[w].pc = "idle"

\* C18, as stated: an order row is created pending, an existing row is changed
\* only by a webhook delivery's commit, and no row is deleted.
C18_OnlyWebhookMutatesOrders ==
    [][/\ \A i \in DOMAIN orders :
            /\ i \in DOMAIN orders'
            /\ orders'[i] # orders[i] => \E w \in Workers : WebhookCommits(w, i)
       /\ \A i \in DOMAIN orders' \ DOMAIN orders : orders'[i].status = "pending"
      ]_vars

\* C18, amended: an order row is created pending with no session id and no
\* payment intent; no row is deleted; amount, currency and created_at never
\* change; status, payment_intent_id and updated_at change only in a webhook
\* delivery's commit for that order; stripe_session_id changes only once, from
\* None to the processor's session id, in the checkout request that created
\* the row.
C18_OrderFrame ==
    [][/\ \A i \in DOMAIN orders :
            /\ i \in DOMAIN orders'
            /\ \A c \in {"amount", "currency", "created_at"} : orders'[i][c] = orders[i][c]
            /\ (\E c \in {"status", "payment_intent_id", "updated_at"} :
                    orders'[i][c] # orders[i][c])
                 => \E w \in Workers : WebhookCommits(w, i)
            /\ orders'[i].stripe_session_id # orders[i].stripe_session_id
                 => \E w \in Workers :
                        /\ CheckoutStores(w, i)
                        /\ orders[i].stripe_session_id = NoneVal
                        /\ orders'[i].stripe_session_id = procs[w].sid
                        /\ procs[w].sid \in Range(SessionIds)
       /\ \A i \in DOMAIN orders' \ DOMAIN orders :
            /\ orders'[i].status = "pending"
            /\ orders'[i].stripe_session_id = NoneVal
            /\ orders'[i].payment_intent_id = NoneVal
            /\ \E w \in Workers : procs[w].pc = "idle" /\ procs'[w].pc = "ck_call"
                                   /\ procs'[w].order_id = i
      ]_vars

\* An order whose session id was stored by its checkout request and whose
\* status a webhook delivery then changed, while another request is in progress
C18_Witness ==
    /\ 1 \in DOMAIN orders
    /\ orders[1].stripe_session_id = "cs_1"
    /\ orders[1].status = "paid"
    /\ orders[1].payment_intent_id = "pi_1"
    /\ orders[1].updated_at > orders[1].created_at
    /\ \E w \in Workers : procs[w].pc # "idle"

\* C20: the audit entry a webhook delivery writes has old_value equal to the
\* status the order held immediately before the delivery's change was
\* committed and new_value equal to the status it held immediately after,
\* whatever the interleaving of deliveries for the same order.
C20_AuditRecordsPriorStatus ==
    [][\A w \in Workers :
         (procs[w].pc = "wh_audit" /\ procs'[w].pc = "idle")
           => LET entry == auditLog'[Len(auditLog')]
              IN  /\ Len(auditLog') = Len(auditLog) + 1
                  /\ entry.old_value = procs[w].replaced
                  /\ entry.new_value = procs[w].installed
      ]_vars
----------------------------------------------------------------------------
(* What a caller without a token learns of the webhook secret (SpecSurface) *)

\* The step changes the stored STRIPE_WEBHOOK_SECRET value and nothing else of
\* the database. A request that only reads, and a delivery that is refused,
\* leave the database as the request before them left it, so the states after
\* them are not looked at again.
OnlyWebhookSecretChanges ==
    /\ settings' # settings
    /\ last.op \notin {"get_order", "payment_methods", "currencies"}
    /\ ~(last.op = "webhook" /\ last.status = 400)
    /\ orders' = orders /\ users' = users /\ auditLog' = auditLog
    /\ stripeCalls' = stripeCalls /\ now' = now /\ issued' = issued
    /\ DOMAIN settings' = DOMAIN settings
    /\ "STRIPE_WEBHOOK_SECRET" \in DOMAIN settings
    /\ \A k \in DOMAIN settings :
         IF k = "STRIPE_WEBHOOK_SECRET"
         THEN /\ settings'[k].value # settings[k].value
              /\ settings'[k] = [settings[k] EXCEPT !.value = settings'[k].value]
         ELSE settings'[k] = settings[k]

\* C19: for two states that differ only in the stored STRIPE_WEBHOOK_SECRET
\* value, every request sent without a valid admin token (checkout, payment
\* methods, currencies, orders, init, login, the admin endpoints that return
\* settings with a token that is not valid, and webhook deliveries not signed
\* with either secret)
\* gets the same response in both.
C19_WebhookSecretNotObservable ==
    [][OnlyWebhookSecretChanges =>
        /\ \A amount \in Amounts, currency \in Currencies, method \in Methods,
              idem \in IdempotencyKeys, outcome \in {"ok", "rejected"} :
               create_checkout_session(amount, currency, method, idem, outcome).resp
                 = create_checkout_session(amount, currency, method, idem, outcome).resp'
        /\ get_payment_methods.resp = get_payment_methods.resp'
        /\ get_currencies.resp = get_currencies.resp'
        /\ \A order_id \in OrderIds : get_order(order_id).resp = get_order(order_id).resp'
        /\ initialize_admin.resp = initialize_admin.resp'
        /\ \A a \in LoginAttempts : login(a[1], a[2]).resp = login(a[1], a[2]).resp'
        /\ \A token \in ForeignTokens :
               /\ get_settings(token).resp = get_settings(token).resp'
               /\ debug_stripe_keys(token).resp = debug_stripe_keys(token).resp'
        /\ \A sig \in Signatures \cup {"whsec_WKO8zQaMhvwKr6"}, event \in SurfaceEvents :
               (sig # get_stripe_webhook_secret /\ sig # get_stripe_webhook_secret')
                 => /\ stripe_webhook(sig, event).resp.status = 400
                    /\ stripe_webhook(sig, event).resp = stripe_webhook(sig, event).resp'
      ]_vars

\* The secret was changed from the value it was installed with, with an order
\* to ask for, and the last delivery signed with another secret was refused
C19_Witness ==
    /\ get_stripe_webhook_secret = "whsec_live"
    /\ orders # <<>>
    /\ last.op = "webhook" /\ last.status = 400
----------------------------------------------------------------------------
(* Racing deliveries for one order (SpecDeliveries)                        *)

\* C21: whatever the sequence or interleaving of verified completed, failed
\* and expired deliveries for an existing order, each delivery's commit
\* overwrites the status, so that after every commit (the last one included)
\* the order's status is the one mapped from the event whose update was just
\* committed.
C21_LastCommitDecidesStatus ==
    [][\A w \in Workers, i \in DOMAIN orders :
         WebhookCommits(w, i) => orders'[i].status = EventStatus(procs[w].event.type)
      ]_vars

----------------------------------------------------------------------------
(* Checkout: audit entries and orders per request                          *)

\* C25: a checkout request refused because its payment method is not in the
\* configured set appends exactly one audit entry, tagged
\* payment_attempt_failed.
C25_OneFailedEntryPerRejection ==
    [][\A amount \in Amounts, currency \in Currencies, method \in Methods,
         idem \in IdempotencyKeys, outcome \in ProcessorOutcomes :
          (NotEnabled(method)
              /\ Handles(create_checkout_session(amount, currency, method, idem, outcome)))
              => /\ Len(auditLog') = Len(auditLog) + 1
                 /\ auditLog'[Len(auditLog')].action = "payment_attempt_failed"]_vars

\* C26: every checkout request that reaches the creation of its order (the
\* body is valid and the processor key was read) adds exactly one Order row,
\* pending, whatever the outcome, and changes no other row; a request that
\* fails before that adds none; the Idempotency-Key a client sends is the key
\* the processor is called with and is not looked at otherwise, so a request
\* repeating a key already used adds a row of its own.
C26_OneOrderPerRequest ==
    [][\A amount \in Amounts, currency \in Currencies, method \in Methods,
         idem \in ClientKeys, outcome \in Outcomes :
          LET r == create_checkout_session(amount, currency, method, idem, outcome)
          IN  Handles(r) =>
                IF outcome = "db_error"
                THEN orders' = orders
                ELSE /\ Len(orders') = Len(orders) + 1
                     /\ SubSeq(orders', 1, Len(orders)) = orders
                     /\ orders'[Len(orders')].status = "pending"
                     /\ (idem # NoneVal /\ Len(stripeCalls') > Len(stripeCalls))
                          => stripeCalls'[Len(stripeCalls')].idempotency_key = idem
      ]_vars

\* Two requests were sent to the processor under one Idempotency-Key, each
\* for an order of its own
C26_Witness ==
    /\ Len(orders) >= 2
    /\ \E j, k \in DOMAIN stripeCalls :
          /\ stripeCalls[j].idempotency_key = "order-42"
          /\ stripeCalls[k].idempotency_key = "order-42"
          /\ stripeCalls[j].client_reference_id = Str(1)
          /\ stripeCalls[k].client_reference_id = Str(2)

----------------------------------------------------------------------------
(* PUT /admin/settings/{key}: the audit entries of one request (SpecAdmin)  *)

\* C27: an authenticated PUT /admin/settings/{key} appends exactly two audit
\* entries for the key: first set_setting's, setting_create when the key had
\* no row and setting_update when it had, with the old and the new value; then
\* the route's, setting_update with the new value only.
C27_TwoEntriesPerPut ==
    [][\A token \in issued, w \in PanelWrites :
         LET r == update_setting_request(token, w[1], w[2])
             n == Len(auditLog)
         IN  (last'.op = "update_setting" /\ Handles(r) /\ r.resp.status = 200) =>
                /\ Len(auditLog') = n + 2
                /\ SubSeq(auditLog', 1, n) = auditLog
                /\ auditLog'[n + 1].action =
                       IF w[1] \in DOMAIN settings THEN "setting_update" ELSE "setting_create"
                /\ auditLog'[n + 1].old_value =
                       IF w[1] \in DOMAIN settings THEN settings[w[1]].value ELSE NoneVal
                /\ auditLog'[n + 1].new_value = w[2]
                /\ auditLog'[n + 2].action = "setting_update"
                /\ auditLog'[n + 2].old_value = NoneVal
                /\ auditLog'[n + 2].new_value = w[2]
                /\ \A k \in {n + 1, n + 2} :
                      /\ auditLog'[k].resource_type = "setting"
                      /\ auditLog'[k].resource_id = w[1]
                      /\ auditLog'[k].user_id = get_current_user(token).id
      ]_vars

\* A PUT created the key SHOP_NAME: the log ends with its setting_create entry
\* and the route's setting_update entry
C27_Witness ==
    /\ last.op = "update_setting" /\ last.status = 200
    /\ Len(auditLog) >= 2
    /\ auditLog[Len(auditLog) - 1].action = "setting_create"
    /\ auditLog[Len(auditLog) - 1].resource_id = "SHOP_NAME"
    /\ auditLog[Len(auditLog)].action = "setting_update"
    /\ auditLog[Len(auditLog)].resource_id = "SHOP_NAME"
    /\ auditLog[Len(auditLog)].old_value = NoneVal

----------------------------------------------------------------------------
(* Tokens of an account that is no longer active (SpecAdmin)               *)

\* The account the token names exists and is not active
SubjectInactive(token) ==
    /\ \E i \in DOMAIN users : users[i].username = token.sub
    /\ \A i \in DOMAIN users : users[i].username = token.sub => ~users[i].is_active

\* C28: the authenticated endpoints accept a token exactly when it is signed
\* with the application's key, unexpired, and names an existing account; they
\* do not look at the account's active flag, so the token of an account that
\* is not active is served until it expires, while a login to that account is
\* refused.
C28_InactiveSubjectIsServed ==
    \A token \in Tokens :
        /\ (get_current_user(token).id # NoId) = ~Rejected(token)
        /\ (token \in issued /\ ~Rejected(token) /\ SubjectInactive(token)) =>
              /\ \A r \in AdminRequests(token) \cup {debug_stripe_keys(token)} :
                    r.resp.status = 200
              /\ \A password \in Passwords : login(token.sub, password).resp.status = 401
        /\ (SubjectInactive(token) /\ token.exp <= now) =>
              \A r \in AdminRequests(token) : r.resp.status = 401

\* The administrator's account was deactivated and a setting was then written
\* with the token issued before
C28_Witness ==
    /\ last.op = "update_setting" /\ last.status = 200
    /\ \A i \in DOMAIN users : ~users[i].is_active
    /\ \E token \in issued : ~Rejected(token) /\ SubjectInactive(token)
    /\ \E k \in DOMAIN auditLog : auditLog[k].action = "setting_update"

----------------------------------------------------------------------------
(* Seeding only inserts (SpecSeed)                                         *)

\* The step is one of the three seeding procedures
Seeds == Handles(on_startup) \/ Handles(initialize_admin) \/ Handles(initialize_database)

\* C29: on_startup, POST /admin/init and init_db.py, run any number of times
\* and in any order between authenticated setting updates, leave every
\* existing Setting row and every existing account as they are and leave
\* exactly one admin account; the rows they add are default keys that had no
\* row. A step that changes the value of an existing Setting row is a PUT
\* /admin/settings/{key} sent with a valid token.
C29_SeedingOnlyInserts ==
    [][/\ Seeds =>
            /\ \A k \in DOMAIN settings : k \in DOMAIN settings' /\ settings'[k] = settings[k]
            /\ \A k \in DOMAIN settings' \ DOMAIN settings :
                  \E d \in Range(InitSettings) : d[1] = k /\ settings'[k].value = d[2]
            /\ \A i \in DOMAIN users : i \in DOMAIN users' /\ users'[i] = users[i]
            /\ Cardinality({i \in DOMAIN users' : users'[i].username = "admin"}) = 1
       /\ \A k \in DOMAIN settings :
            (k \in DOMAIN settings' /\ settings'[k].value # settings[k].value) =>
                \E token \in issued :
                    /\ ~Rejected(token)
                    /\ Handles(update_setting_request(token, k, settings'[k].value))
      ]_vars

\* POST /admin/init has just run after the administrator changed
\* PAYMENT_METHODS and the account was deactivated: both are as they were left
C29_Witness ==
    /\ last.op = "init"
    /\ "PAYMENT_METHODS" \in DOMAIN settings
    /\ settings["PAYMENT_METHODS"].value = "card,blik"
    /\ \E i \in DOMAIN users : users[i].username = "admin" /\ ~users[i].is_active
    /\ Len(auditLog) >= 2
    /\ auditLog[Len(auditLog)].action = "admin_init"

----------------------------------------------------------------------------
(* Settings are read afresh by every request (SpecRetry)                   *)

\* The codes a PAYMENT_METHODS value lists
MethodSet(value) ==
    CASE value = "card,blik" -> {"card", "blik"}
      [] value = "card, p24" -> {"card", "p24"}
      [] value = "card,blik,p24,bancontact,ideal,sofort" ->
             {"card", "blik", "p24", "bancontact", "ideal", "sofort"}
      [] value = "" -> {}

\* The same, an empty value standing for the built-in list
MethodSetOrDefault(value) ==
    IF value = "" THEN {"card", "blik", "p24", "bancontact", "ideal", "sofort"}
    ELSE MethodSet(value)

\* The sets of PAYMENT_METHODS committed so far, as the audit log records
\* them, and the value of the latest
MethodWrites ==
    {k \in DOMAIN auditLog :
        /\ auditLog[k].resource_id = "PAYMENT_METHODS"
        /\ auditLog[k].action \in {"setting_update", "setting_create"}}

LatestMethods == auditLog[CHOOSE k \in MethodWrites : \A j \in MethodWrites : j <= k].new_value

\* A checkout step refused for its payment method
MethodRefused == last'.status = 400 /\ last'.body.detail = "Invalid payment method"

----------------------------------------------------------------------------
(* The session id is stored after a webhook delivery (SpecRace)            *)

\* C30: the commit by which a checkout request stores the session id leaves
\* the order's status and payment intent as they were immediately before it,
\* so when a verified delivery for the order was committed after the order's
\* creation and before that commit, they are the ones the delivery wrote.
C30_StoreKeepsWebhookTransition ==
    [][\A w \in Workers, i \in DOMAIN orders :
         CheckoutStores(w, i) =>
            /\ orders'[i].status = orders[i].status
            /\ orders'[i].payment_intent_id = orders[i].payment_intent_id
            /\ orders'[i].updated_at = orders[i].updated_at
            /\ orders'[i].stripe_session_id = procs[w].sid
      ]_vars

\* The order was paid by a delivery whose entry is in the audit log before the
\* checkout's, and the checkout has stored its session id since
C30_Witness ==
    /\ 1 \in DOMAIN orders
    /\ orders[1].status = "paid"
    /\ orders[1].payment_intent_id = "pi_1"
    /\ orders[1].stripe_session_id = SessionIds[1]
    /\ \E j, k \in DOMAIN auditLog :
          /\ j < k
          /\ auditLog[j].action = "payment_completed"
          /\ auditLog[k].action = "payment_attempt_created"
          /\ auditLog[j].resource_id = Str(1)
          /\ auditLog[k].resource_id = Str(1)

----------------------------------------------------------------------------
(* Writers racing on the settings table (SpecWriters)                      *)

\* Worker w takes the commit step of its set operation
SetCommits(w) == procs[w].pc = "set_commit" /\ procs'[w] # procs[w]

\* Another worker's set operation on the same key is in progress
Overlaps(w) ==
    \E v \in Workers \ {w} :
        /\ procs[v].pc \in {"set_commit", "answer"}
        /\ procs[v].op = "update_setting"
        /\ procs[v].key = procs[w].key

\* C22: when a set operation reaches its commit while another set operation
\* on the same key is in progress, the writer completes and the value stored
\* under the key after the commit is the one it wrote, whether or not the key
\* had a row when the writer looked it up.
C22_LastCommittedWriteWins ==
    [][\A w \in Workers :
         SetCommits(w) /\ Overlaps(w) =>
            /\ procs'[w].pc = "answer"
            /\ FirstByKey(settings', procs[w].key) # NoId
            /\ settings'[FirstByKey(settings', procs[w].key)].value = procs[w].value
      ]_vars

KeyUnique ==
    \A i, j \in DOMAIN settings : settings[i].key = settings[j].key => i = j

KeysKept ==
    \A i \in DOMAIN settings : FirstByKey(settings', settings[i].key) # NoId

\* C23: in every state reached by set operations, startup seedings and POST
\* /admin/init requests of two workers interleaved step by step, no two rows
\* of the settings table have the same key, and a key that has a row has one
\* after every step.
C23_KeysUniqueAndKept == [](KeyUnique) /\ [][KeysKept]_vars

\* A writer that found no row for its key was refused by the unique index,
\* because the seeding committed the key in between
C23_Witness ==
    /\ last.status = 500
    /\ last.op = "update_setting"
    /\ Len(settings) = 6
    /\ \E i \in DOMAIN settings : settings[i].key = "PAYMENT_METHODS"

====
